---- MODULE Spec2Model ----
(***************************************************************************)
(* Model of src/main.py: the /schedule-interviews/ handler of TalentSync.   *)
(* A run fetches the ranked candidates, computes the first business day     *)
(* two days from now, and walks the candidates in rank order, giving each   *)
(* the next 30-minute slot of the day (09:00..17:00), rolling over to the   *)
(* next business day when a day is used up, and mailing each candidate.     *)
(*                                                                         *)
(* A datetime is [day, minute]: day counts calendar days from a Monday      *)
(* (day 0), minute counts minutes since midnight.                           *)
(***************************************************************************)
EXTENDS Integers, Sequences, FiniteSets, TLC

(* ---- bounds of the model ---- *)
MaxCandidates == 35
MaxSendFailures == 1
MaxMalformedIndex == 2
MaxNowDay == 6

(* ---- constants of the program ---- *)
LeadDays == 2
StartHour == 9
EndHour == 17
IntervalMinutes == 30
Saturday == 5
MinutesPerDay == 24 * 60

(* invocation instants: any day of one week, before and after 09:00 *)
NowMinutes == {8 * 60 + 15, 10 * 60 + 40}
NowInstants == [day : 0..MaxNowDay, minute : NowMinutes]

NoDate == [day |-> 0 - 1, minute |-> 0]
NoSlot == [date |-> 0 - 1, hh |-> 0, mm |-> 0, zone |-> "none"]

request == [database_name |-> "talentsync", collection_name |-> "candidates"]

(* ---- datetime, timedelta ---- *)
weekday(d) == d.day % 7

AddDays(d, k) == [day |-> d.day + k, minute |-> d.minute]

AddMinutes(d, m) ==
    [day |-> d.day + ((d.minute + m) \div MinutesPerDay),
     minute |-> (d.minute + m) % MinutesPerDay]

DateTimeAt(d, h, m) == [day |-> d.day, minute |-> h * 60 + m]

DateTimeLeq(a, b) == a.day < b.day \/ (a.day = b.day /\ a.minute <= b.minute)

strftime(d) ==
    [date |-> d.day, hh |-> d.minute \div 60, mm |-> d.minute % 60, zone |-> "IST"]

(* ---- generate_time_slots ---- *)
DateTimes == [day : Int, minute : 0..(MinutesPerDay - 1)]

(* the while loop of lines 45-47, from the value of current_time on entry *)
SlotsFrom[current_time \in DateTimes, end_time \in DateTimes] ==
    IF DateTimeLeq(current_time, end_time)
    THEN <<strftime(current_time)>>
             \o SlotsFrom[AddMinutes(current_time, IntervalMinutes), end_time]
    ELSE <<>>

(* variant: the end of the day left out of the calendar *)
generate_time_slots_end_exclusive(start) ==
    SlotsFrom[DateTimeAt(start, StartHour, 0), DateTimeAt(start, EndHour - 1, IntervalMinutes)]

generate_time_slots(start) ==
    SlotsFrom[DateTimeAt(start, StartHour, 0), DateTimeAt(start, EndHour, 0)]

(* ---- the weekend-skipping loops ---- *)
RECURSIVE SkipWeekend(_)
SkipWeekend(d) ==
    IF weekday(d) >= Saturday THEN SkipWeekend(AddDays(d, 1)) ELSE d

(* variant: the lead time added, the weekend check left out *)
InitialDayLeadOnly(nowv) == AddDays(nowv, LeadDays)

(* variant: the lead time one day short *)
InitialDayShortLead(nowv) == SkipWeekend(AddDays(nowv, LeadDays - 1))

InitialBusinessDay(nowv) == SkipWeekend(AddDays(nowv, LeadDays))

(* variant: rollover always moves on to a Monday *)
RECURSIVE SkipToMonday(_)
SkipToMonday(d) == IF weekday(d) # 0 THEN SkipToMonday(AddDays(d, 1)) ELSE d

NextMonday(d) == SkipToMonday(AddDays(d, 1))

(* variant: the next calendar day, the weekend check left out *)
NextCalendarDay(d) == AddDays(d, 1)

NextBusinessDay(d) == SkipWeekend(AddDays(d, 1))

(* ---- the candidate store ---- *)
RankOf(k) == (k + 1) \div 2

Candidate(k) == [NAME |-> <<"name", k>>, EMAIL |-> <<"mail", k>>, RANK |-> RankOf(k)]

CandidateWithout(k, key) ==
    IF key = "EMAIL"
    THEN [NAME |-> <<"name", k>>, RANK |-> RankOf(k)]
    ELSE [EMAIL |-> <<"mail", k>>, RANK |-> RankOf(k)]

(* n records sorted by ascending RANK; record number bad (if any) lacks key *)
RankedList(n, bad, key) ==
    [k \in 1..n |-> IF k = bad THEN CandidateWithout(k, key) ELSE Candidate(k)]

StoreResults ==
    {RankedList(n, 0, "EMAIL") : n \in 0..MaxCandidates}
    \cup {RankedList(n, bad, key) :
            n \in 1..MaxCandidates, bad \in 1..MaxMalformedIndex, key \in {"NAME", "EMAIL"}}

HasKey(cand, key) == key \in DOMAIN cand

(* the mailboxes that may refuse a message: those of the candidates ranked at
   the end of a day's calendar and at the start of one *)
Unreliable(k) == k % 17 \in {0, 1, 2}

(* ---- responses ---- *)
NoCandidatesResponse ==
    [message |-> <<"No candidates found in", request.database_name,
                   request.collection_name, "to schedule interviews.">>]

SummaryResponse(scheduled) ==
    [message |-> <<"Interviews scheduled and emails sent for",
                   request.database_name, request.collection_name>>,
     scheduled |-> scheduled]

FailureResponse(why) ==
    [status_code |-> 500, detail |-> <<"Failed to schedule interviews:", why>>]

IsSummary(r) == "message" \in DOMAIN r
IsFailure(r) == "status_code" \in DOMAIN r

VARIABLES
    pc,               \* position of the run in schedule_interviews
    candidates,       \* list fetched from the store
    now,              \* clock reading of line 67
    start_date,
    current_date,
    available_slots,
    slot_index,
    idx,              \* candidates the for loop has finished with
    interview_time,
    scheduled_emails,
    response,
    assignments,      \* history: <<candidate, slot>> in the order taken
    attempts,         \* history: sendmail calls and their outcome
    calendars         \* history: days generate_time_slots was called for

vars == <<pc, candidates, now, start_date, current_date, available_slots,
          slot_index, idx, interview_time, scheduled_emails, response,
          assignments, attempts, calendars>>

history == <<assignments, attempts, calendars>>

Init ==
    /\ pc = "start"
    /\ candidates = <<>>
    /\ now = NoDate
    /\ start_date = NoDate
    /\ current_date = NoDate
    /\ available_slots = <<>>
    /\ slot_index = 0
    /\ idx = 0
    /\ interview_time = NoSlot
    /\ scheduled_emails = <<>>
    /\ response = [pending |-> TRUE]
    /\ assignments = <<>>
    /\ attempts = <<>>
    /\ calendars = <<>>

Fail(why) ==
    /\ pc' = "done"
    /\ response' = FailureResponse(why)

(* lines 53-64: fetch, the empty return, the log line that reads every NAME *)
Fetch ==
    /\ pc = "start"
    /\ \E list \in StoreResults :
        /\ candidates' = list
        /\ IF list = <<>>
           THEN /\ pc' = "done"
                /\ response' = NoCandidatesResponse
           ELSE IF \E k \in 1..Len(list) : ~HasKey(list[k], "NAME")
           THEN Fail("KeyError NAME")
           ELSE /\ pc' = "fetched"
                /\ UNCHANGED response
    /\ UNCHANGED <<now, start_date, current_date, available_slots, slot_index, idx,
                   interview_time, scheduled_emails, history>>

(* lines 55-59 raising: the store cannot be read *)
FetchFails ==
    /\ pc = "start"
    /\ Fail("store error")
    /\ UNCHANGED <<candidates, now, start_date, current_date, available_slots,
                   slot_index, idx, interview_time, scheduled_emails, history>>

(* lines 67-74 *)
ComputeStart ==
    /\ pc = "fetched"
    /\ \E nowv \in NowInstants :
        LET first_day == InitialBusinessDay(nowv)
        IN /\ now' = nowv
           /\ start_date' = first_day
           /\ available_slots' = generate_time_slots(first_day)
           /\ current_date' = first_day
           /\ calendars' = Append(calendars, first_day.day)
    /\ slot_index' = 0
    /\ scheduled_emails' = <<>>
    /\ pc' = "loop"
    /\ UNCHANGED <<candidates, idx, interview_time, response, assignments, attempts>>

(* variant: the calendar regenerated for the day just used up *)
RolloverSameDay ==
    /\ pc = "loop"
    /\ idx < Len(candidates)
    /\ slot_index >= Len(available_slots)
    /\ LET next_day == current_date
       IN /\ current_date' = next_day
          /\ available_slots' = generate_time_slots(next_day)
          /\ calendars' = Append(calendars, next_day.day)
    /\ slot_index' = 0
    /\ pc' = "take"
    /\ UNCHANGED <<candidates, now, start_date, idx, interview_time, scheduled_emails,
                   response, assignments, attempts>>

(* variant: the rollover test off by one, the last slot of a day never used *)
RolloverOneEarly ==
    /\ pc = "loop"
    /\ idx < Len(candidates)
    /\ slot_index >= Len(available_slots) - 1
    /\ LET next_day == NextBusinessDay(current_date)
       IN /\ current_date' = next_day
          /\ available_slots' = generate_time_slots(next_day)
          /\ calendars' = Append(calendars, next_day.day)
    /\ slot_index' = 0
    /\ pc' = "take"
    /\ UNCHANGED <<candidates, now, start_date, idx, interview_time, scheduled_emails,
                   response, assignments, attempts>>

(* variant: the cursor not reset after the calendar is regenerated *)
RolloverKeepsCursor ==
    /\ pc = "loop"
    /\ idx < Len(candidates)
    /\ slot_index >= Len(available_slots)
    /\ LET next_day == NextBusinessDay(current_date)
       IN /\ current_date' = next_day
          /\ available_slots' = generate_time_slots(next_day)
          /\ calendars' = Append(calendars, next_day.day)
    /\ slot_index' = slot_index
    /\ pc' = "take"
    /\ UNCHANGED <<candidates, now, start_date, idx, interview_time, scheduled_emails,
                   response, assignments, attempts>>

(* lines 78-83 *)
Rollover ==
    /\ pc = "loop"
    /\ idx < Len(candidates)
    /\ slot_index >= Len(available_slots)
    /\ LET next_day == NextBusinessDay(current_date)
       IN /\ current_date' = next_day
          /\ available_slots' = generate_time_slots(next_day)
          /\ calendars' = Append(calendars, next_day.day)
    /\ slot_index' = 0
    /\ pc' = "take"
    /\ UNCHANGED <<candidates, now, start_date, idx, interview_time, scheduled_emails,
                   response, assignments, attempts>>

(* variant: the cursor left where it was after a slot is taken *)
AssignKeepsCursor ==
    /\ \/ pc = "take"
       \/ pc = "loop" /\ idx < Len(candidates) /\ slot_index < Len(available_slots)
    /\ slot_index < Len(available_slots)
    /\ interview_time' = available_slots[slot_index + 1]
    /\ slot_index' = slot_index
    /\ assignments' = Append(assignments,
                             [candidate |-> candidates[idx + 1],
                              slot |-> available_slots[slot_index + 1]])
    /\ pc' = "assigned"
    /\ UNCHANGED <<candidates, now, start_date, current_date, available_slots, idx,
                   scheduled_emails, attempts, calendars, response>>

(* variant: the cursor moved past two slots for one assignment *)
AssignSkipsSlot ==
    /\ \/ pc = "take"
       \/ pc = "loop" /\ idx < Len(candidates) /\ slot_index < Len(available_slots)
    /\ slot_index < Len(available_slots)
    /\ interview_time' = available_slots[slot_index + 1]
    /\ slot_index' = slot_index + 2
    /\ assignments' = Append(assignments,
                             [candidate |-> candidates[idx + 1],
                              slot |-> available_slots[slot_index + 1]])
    /\ pc' = "assigned"
    /\ UNCHANGED <<candidates, now, start_date, current_date, available_slots, idx,
                   scheduled_emails, attempts, calendars, response>>

(* lines 85-86 *)
Assign ==
    /\ \/ pc = "take"
       \/ pc = "loop" /\ idx < Len(candidates) /\ slot_index < Len(available_slots)
    /\ IF slot_index < Len(available_slots)
       THEN /\ interview_time' = available_slots[slot_index + 1]
            /\ slot_index' = slot_index + 1
            /\ assignments' = Append(assignments,
                                     [candidate |-> candidates[idx + 1],
                                      slot |-> available_slots[slot_index + 1]])
            /\ pc' = "assigned"
            /\ UNCHANGED response
       ELSE /\ Fail("IndexError")
            /\ UNCHANGED <<interview_time, slot_index, assignments>>
    /\ UNCHANGED <<candidates, now, start_date, current_date, available_slots, idx,
                   scheduled_emails, attempts, calendars>>

CanBuildMessage(cand) == HasKey(cand, "NAME") /\ HasKey(cand, "EMAIL")

SendFailures == Cardinality({k \in 1..Len(attempts) : ~attempts[k].ok})

(* lines 88-108 raising KeyError: outside the inner try, caught at line 125 *)
BuildMessageRaises ==
    /\ pc = "assigned"
    /\ ~CanBuildMessage(candidates[idx + 1])
    /\ Fail("KeyError")
    /\ UNCHANGED <<candidates, now, start_date, current_date, available_slots,
                   slot_index, idx, interview_time, scheduled_emails, history>>

(* lines 88-119: message built, sendmail returns *)
SendSucceeds ==
    /\ pc = "assigned"
    /\ CanBuildMessage(candidates[idx + 1])
    /\ scheduled_emails' = Append(scheduled_emails,
                                  [name |-> candidates[idx + 1].NAME,
                                   email |-> candidates[idx + 1].EMAIL,
                                   interview_time |-> interview_time])
    /\ attempts' = Append(attempts, [to |-> candidates[idx + 1].EMAIL, ok |-> TRUE])
    /\ idx' = idx + 1
    /\ pc' = "loop"
    /\ UNCHANGED <<candidates, now, start_date, current_date, available_slots,
                   slot_index, interview_time, response, assignments, calendars>>

(* variant: a failed send ends the loop, as if the try enclosed the loop *)
SendFailsLeavesLoop ==
    /\ pc = "assigned"
    /\ CanBuildMessage(candidates[idx + 1])
    /\ Unreliable(idx + 1)
    /\ SendFailures < MaxSendFailures
    /\ attempts' = Append(attempts, [to |-> candidates[idx + 1].EMAIL, ok |-> FALSE])
    /\ idx' = Len(candidates)
    /\ pc' = "loop"
    /\ UNCHANGED <<candidates, now, start_date, current_date, available_slots,
                   slot_index, interview_time, scheduled_emails, response,
                   assignments, calendars>>

(* variant: a failed send is tried again for the same candidate *)
SendFailsRetries ==
    /\ pc = "assigned"
    /\ CanBuildMessage(candidates[idx + 1])
    /\ Unreliable(idx + 1)
    /\ SendFailures < MaxSendFailures
    /\ attempts' = Append(attempts, [to |-> candidates[idx + 1].EMAIL, ok |-> FALSE])
    /\ idx' = idx
    /\ pc' = "assigned"
    /\ UNCHANGED <<candidates, now, start_date, current_date, available_slots,
                   slot_index, interview_time, scheduled_emails, response,
                   assignments, calendars>>

(* variant: a failed send hands its slot back to the calendar *)
SendFailsReleasesSlot ==
    /\ pc = "assigned"
    /\ CanBuildMessage(candidates[idx + 1])
    /\ Unreliable(idx + 1)
    /\ SendFailures < MaxSendFailures
    /\ attempts' = Append(attempts, [to |-> candidates[idx + 1].EMAIL, ok |-> FALSE])
    /\ slot_index' = slot_index - 1
    /\ idx' = idx + 1
    /\ pc' = "loop"
    /\ UNCHANGED <<candidates, now, start_date, current_date, available_slots,
                   interview_time, scheduled_emails, response,
                   assignments, calendars>>

(* lines 88-113, 120-121: SMTP raises, the error is logged and swallowed *)
SendFails ==
    /\ pc = "assigned"
    /\ CanBuildMessage(candidates[idx + 1])
    /\ Unreliable(idx + 1)
    /\ SendFailures < MaxSendFailures
    /\ attempts' = Append(attempts, [to |-> candidates[idx + 1].EMAIL, ok |-> FALSE])
    /\ idx' = idx + 1
    /\ pc' = "loop"
    /\ UNCHANGED <<candidates, now, start_date, current_date, available_slots,
                   slot_index, interview_time, scheduled_emails, response,
                   assignments, calendars>>

(* line 123 *)
ReturnSummary ==
    /\ pc = "loop"
    /\ idx = Len(candidates)
    /\ response' = SummaryResponse(scheduled_emails)
    /\ pc' = "done"
    /\ UNCHANGED <<candidates, now, start_date, current_date, available_slots,
                   slot_index, idx, interview_time, scheduled_emails, history>>

Next ==
    \/ Fetch
    \/ FetchFails
    \/ ComputeStart
    \/ Rollover
    \/ Assign
    \/ BuildMessageRaises
    \/ SendSucceeds
    \/ SendFails
    \/ ReturnSummary

Spec == Init /\ [][Next]_vars

(* the handler runs to its return: every fetch and every send returns, and
   nothing else can hold a step back *)
FairSpec == Spec /\ WF_vars(Next)

(* ======================= properties ======================= *)

IsWeekend(day) == day % 7 \in {5, 6}

(* the j-th business day after day d0 (the 0-th is d0 itself) *)
RECURSIVE BusinessDayAfter(_, _)
BusinessDayAfter(d0, j) ==
    IF j = 0 THEN d0
    ELSE LET p == BusinessDayAfter(d0, j - 1)
         IN CHOOSE d \in (p + 1)..(p + 3) :
                ~IsWeekend(d) /\ \A e \in (p + 1)..(d - 1) : IsWeekend(e)

(* the label of calendar position p (0-based) of a day *)
SlotLabel(day, p) ==
    [date |-> day, hh |-> 9 + (p \div 2), mm |-> 30 * (p % 2), zone |-> "IST"]

LabelTime(l) == (l.date * 1440) + (l.hh * 60) + l.mm

Completed == pc = "done" /\ IsSummary(response)

(* C1: a run that completes has assigned exactly one slot to each candidate,
   the i-th slot taken going to the i-th candidate of the ranked list; while
   the run is under way the assignments made so far are a prefix of that *)
OneSlotPerCandidateInRankOrder ==
    /\ Len(assignments) <= Len(candidates)
    /\ \A i \in 1..Len(assignments) : assignments[i].candidate = candidates[i]
    /\ Completed => Len(assignments) = Len(candidates)

OneSlotPerCandidateWitness ==
    /\ Completed
    /\ Len(candidates) >= 18
    /\ Len(assignments) = Len(candidates)
    /\ SendFailures = 1

(* C2: the candidate at position k holds calendar position (k-1) mod 17 of the
   ((k-1) div 17)-th business day after the initial business day; candidate 18
   holds 09:00 of the first business day after the initial one *)
SpillOverAcrossDays ==
    /\ \A k \in 1..Len(assignments) :
          assignments[k].slot =
              SlotLabel(BusinessDayAfter(start_date.day, (k - 1) \div 17), (k - 1) % 17)
    /\ Len(assignments) >= 18 =>
          /\ assignments[18].slot.hh = 9
          /\ assignments[18].slot.mm = 0
          /\ assignments[18].slot.date = BusinessDayAfter(start_date.day, 1)

SpillOverWitness ==
    /\ Len(assignments) >= 35
    /\ start_date.day % 7 = 3
    /\ assignments[18].slot = SlotLabel(start_date.day + 1, 0)
    /\ assignments[35].slot = SlotLabel(start_date.day + 4, 0)

(* C3: no assigned slot lies on a Saturday or Sunday, and every day a calendar
   was generated for, the initial one and those reached by rollover, is a
   weekday *)
NoWeekendSlots ==
    /\ \A k \in 1..Len(assignments) : ~IsWeekend(assignments[k].slot.date)
    /\ \A c \in 1..Len(calendars) : ~IsWeekend(calendars[c])
    /\ \A s \in 1..Len(available_slots) : ~IsWeekend(available_slots[s].date)

NoWeekendSlotsWitness ==
    /\ Len(calendars) >= 2
    /\ calendars[2] = calendars[1] + 3
    /\ now.day % 7 = 2
    /\ Len(assignments) >= 18
    /\ assignments[18].slot.date = calendars[2]

(* C4: for positions i < j the slot of candidate j is strictly later in time
   than the slot of candidate i *)
SlotsStrictlyIncreaseWithRank ==
    LET at == [k \in 1..Len(assignments) |-> LabelTime(assignments[k].slot)]
    IN \A i \in 1..Len(assignments) : \A j \in (i + 1)..Len(assignments) : at[i] < at[j]

SlotsStrictlyIncreaseWitness ==
    /\ Len(assignments) >= 18
    /\ calendars[2] = calendars[1] + 3
    /\ LabelTime(assignments[17].slot) < LabelTime(assignments[18].slot)

(* C5: within one calendar the cursor moves forward by exactly 1 per
   assignment, the slot taken is the one under the cursor, the cursor changes
   otherwise only when the calendar is replaced, and a slot just taken was not
   taken before in the run *)
CursorConsumesWithoutReuse ==
    [][/\ assignments' # assignments =>
            /\ slot_index' = slot_index + 1
            /\ available_slots' = available_slots
            /\ Len(assignments') = Len(assignments) + 1
            /\ assignments'[Len(assignments')].slot = available_slots[slot_index + 1]
            /\ \A i \in 1..Len(assignments) :
                  assignments[i].slot # assignments'[Len(assignments')].slot
       /\ slot_index' # slot_index =>
            \/ assignments' # assignments /\ slot_index' = slot_index + 1
            \/ /\ slot_index' = 0
               /\ calendars' # calendars
               /\ available_slots' # available_slots]_vars

CursorConsumesWitness ==
    /\ Len(calendars) = 2
    /\ slot_index = 2
    /\ Len(assignments) = 19
    /\ assignments[19].slot = available_slots[2]

(* C6: the day of the first calendar is the earliest weekday on or after the
   date two days after now; it is that date itself when that is a weekday, and
   the following Monday when now is a Thursday *)
InitialBusinessDayIsEarliest ==
    now # NoDate =>
        LET target == now.day + 2
        IN /\ start_date.day >= target
           /\ ~IsWeekend(start_date.day)
           /\ \A d \in target..(start_date.day - 1) : IsWeekend(d)
           /\ ~IsWeekend(target) => start_date.day = target
           /\ now.day % 7 = 3 => start_date.day = now.day + 4 /\ start_date.day % 7 = 0
           /\ calendars[1] = start_date.day

InitialBusinessDayWitness ==
    /\ now # NoDate
    /\ now.day % 7 = 3
    /\ start_date.day = now.day + 4
    /\ Len(assignments) >= 1
    /\ assignments[1].slot.date = start_date.day

(* C7: a generated calendar has exactly 17 slots, all on the date asked for,
   from 09:00 to 17:00 inclusive in strictly increasing 30-minute steps, and is
   the same whatever the time of day of the argument *)
CalendarShape ==
    Len(calendars) >= 1 =>
        /\ Len(available_slots) = 17
        /\ \A s \in 1..Len(available_slots) :
              /\ available_slots[s].date = current_date.day
              /\ available_slots[s].zone = "IST"
        /\ available_slots[1].hh = 9 /\ available_slots[1].mm = 0
        /\ available_slots[Len(available_slots)].hh = 17
        /\ available_slots[Len(available_slots)].mm = 0
        /\ \A s \in 1..(Len(available_slots) - 1) :
              LabelTime(available_slots[s + 1]) = LabelTime(available_slots[s]) + 30
        /\ generate_time_slots([day |-> current_date.day, minute |-> 23 * 60 + 59])
              = available_slots

CalendarShapeWitness ==
    /\ Len(calendars) >= 2
    /\ current_date.minute > 9 * 60
    /\ Len(available_slots) = 17
    /\ available_slots[17] = SlotLabel(current_date.day, 16)

(* C8: a run over zero candidates returns a summary holding an empty scheduled
   list, having consumed no slot and attempted no delivery *)
ZeroCandidatesEmptyScheduled ==
    (Completed /\ candidates = <<>>) =>
        /\ "scheduled" \in DOMAIN response
        /\ response.scheduled = <<>>
        /\ assignments = <<>>
        /\ attempts = <<>>

(* the slot position k receives, from the invocation instant alone *)
SlotFor(nowv, k) ==
    LET target == nowv.day + 2
        first == CHOOSE d \in target..(target + 2) :
                     ~IsWeekend(d) /\ \A e \in target..(d - 1) : IsWeekend(e)
    IN SlotLabel(BusinessDayAfter(first, (k - 1) \div 17), (k - 1) % 17)

(* C9: the slot of each candidate depends on the invocation instant and the
   position alone, not on which sends succeeded; a failed send keeps its slot,
   the next candidate taking the following one; the summary reports every
   candidate whose send succeeded *)
AssignmentsIgnoreSendOutcomes ==
    /\ \A k \in 1..Len(assignments) : assignments[k].slot = SlotFor(now, k)
    /\ \A k \in 1..Len(attempts) :
          (~attempts[k].ok /\ k < Len(assignments)) =>
              /\ assignments[k + 1].slot # assignments[k].slot
              /\ assignments[k + 1].slot = SlotFor(now, k + 1)
    /\ (Completed /\ candidates # <<>>) =>
          \A k \in 1..Len(attempts) :
              attempts[k].ok =>
                  \E e \in 1..Len(response.scheduled) :
                      /\ response.scheduled[e].email = candidates[k].EMAIL
                      /\ response.scheduled[e].interview_time = assignments[k].slot

AssignmentsIgnoreSendOutcomesWitness ==
    /\ Completed
    /\ Len(attempts) >= 19
    /\ ~attempts[17].ok
    /\ attempts[18].ok
    /\ assignments[18].slot = SlotFor(now, 18)
    /\ Len(response.scheduled) = Len(attempts) - 1

(* the entries of the candidates 1..k whose send succeeded, in list order *)
RECURSIVE SucceededEntries(_)
SucceededEntries(k) ==
    IF k = 0 THEN <<>>
    ELSE IF attempts[k].ok
         THEN Append(SucceededEntries(k - 1),
                     [name |-> candidates[k].NAME,
                      email |-> candidates[k].EMAIL,
                      interview_time |-> assignments[k].slot])
         ELSE SucceededEntries(k - 1)

(* C10: in a run that returns a summary, the scheduled list is exactly the
   candidates whose send succeeded, in candidate order, each with its name,
   address and assigned slot label *)
ScheduledIsSucceededSubsequence ==
    Completed =>
        /\ "scheduled" \in DOMAIN response
        /\ Len(attempts) = Len(candidates)
        /\ response.scheduled = SucceededEntries(Len(candidates))

WellFormed == \A k \in 1..Len(candidates) : CanBuildMessage(candidates[k])

(* C11: the delivery attempts made so far are one per candidate finished, to
   the candidates in rank order, a failed one included and never repeated; a
   run over well-formed records ends only with the summary, every candidate
   attempted exactly once whatever failed before it *)
SingleAttemptPerCandidate ==
    /\ Len(attempts) = idx
    /\ Len(attempts) <= Len(candidates)
    /\ \A k \in 1..Len(attempts) : attempts[k].to = candidates[k].EMAIL
    /\ \A k \in 1..Len(attempts) :
          (~attempts[k].ok /\ k < Len(candidates) /\ pc = "done" /\ WellFormed)
              => Len(attempts) > k
    /\ Completed => Len(attempts) = Len(candidates)
    /\ (pc = "done" /\ WellFormed /\ candidates # <<>>) =>
          IsSummary(response) /\ Len(attempts) = Len(candidates)

SingleAttemptWitness ==
    /\ Completed
    /\ Len(attempts) = 35
    /\ ~attempts[1].ok
    /\ attempts[2].ok
    /\ attempts[35].to = candidates[35].EMAIL

(* C12: a failure response is returned only before any slot has been
   allocated and before any delivery has been attempted *)
FailureOnlyAtBoundary ==
    (pc = "done" /\ IsFailure(response)) =>
        /\ assignments = <<>>
        /\ attempts = <<>>

(* C13: a rollover happens only with a candidate still to serve and all 17
   slots of the current calendar assigned, it moves to the next business day
   (strictly later, only Saturdays and Sundays passed over), resets the cursor
   and is followed at once by the assignment; a completed run over n >= 1
   candidates generated exactly ceil(n/17) calendars, one for n = 17 *)
RolloverLazyAndExact ==
    [][/\ (calendars' # calendars /\ calendars # <<>>) =>
            /\ slot_index = 17
            /\ Len(available_slots) = 17
            /\ idx < Len(candidates)
            /\ Len(assignments) = 17 * Len(calendars)
            /\ slot_index' = 0
            /\ pc' = "take"
            /\ current_date'.day > current_date.day
            /\ ~IsWeekend(current_date'.day)
            /\ \A d \in (current_date.day + 1)..(current_date'.day - 1) : IsWeekend(d)
            /\ calendars' = Append(calendars, current_date'.day)
       /\ pc = "take" => assignments' # assignments
       /\ (pc' = "done" /\ IsSummary(response') /\ candidates' # <<>>) =>
            /\ Len(calendars') = (Len(candidates') + 16) \div 17
            /\ Len(candidates') = 17 => Len(calendars') = 1]_vars

RolloverLazyWitness ==
    /\ Completed
    /\ Len(candidates) = 34
    /\ Len(calendars) = 2
    /\ calendars[2] = calendars[1] + 3
    /\ slot_index = 17

(* the instant two days after the invocation, in minutes *)
LeadInstant == ((now.day + 2) * 1440) + now.minute

InLoop == pc \in {"loop", "take", "assigned"}

(* C15: in the allocation loop 0 <= slot_index <= 17 = len(available_slots);
   where line 85 is about to read available_slots[slot_index] the index is in
   0..16, and no run fails with an index out of range *)
CursorWithinBounds ==
    /\ InLoop =>
          /\ Len(available_slots) = 17
          /\ 0 <= slot_index /\ slot_index <= Len(available_slots)
    /\ ENABLED Assign => 0 <= slot_index /\ slot_index < 17
    /\ pc = "assigned" =>
          /\ 1 <= slot_index
          /\ interview_time = available_slots[slot_index]
    /\ IsFailure(response) => response.detail[2] # "IndexError"

CursorWithinBoundsWitness ==
    /\ pc = "assigned"
    /\ slot_index = 17
    /\ Len(calendars) = 2
    /\ Len(assignments) = 34
    /\ interview_time = available_slots[17]

(* C16: every run eventually returns a summary or a failure response, and
   each weekend-skipping loop, the initial one and the one of a rollover, has
   added at most 2 days *)
RunTerminates ==
    /\ <>(pc = "done" /\ (IsSummary(response) \/ IsFailure(response)))
    /\ [](/\ now # NoDate => start_date.day - (now.day + 2) \in 0..2
          /\ \A c \in 1..(Len(calendars) - 1) :
                (calendars[c + 1] - (calendars[c] + 1)) \in 0..2)

RunTerminatesWitness ==
    /\ Completed
    /\ Len(candidates) = 35
    /\ start_date.day = now.day + 4
    /\ Len(calendars) = 3
    /\ SendFailures = 1

====
